---- MODULE Spec2Model ----
(***************************************************************************)
(* KRONOS keystroke capture: the App component (src/App.tsx) and the       *)
(* analysis service (src/unnamed/part_001, imported by App.tsx as          *)
(* ./services/geminiService).                                              *)
(*                                                                         *)
(* A key symbol (KeyboardEvent.key, a JavaScript string) is a sequence of  *)
(* one-character strings, so that its length, the regular expressions of   *)
(* the classifier and the join of the feature extraction are computed and  *)
(* not assumed.  The fields id (a random string) and code of a KeyEntry    *)
(* are read by no operation modelled here and are left out of the record.  *)
(*                                                                         *)
(* React commits the state updates of a click or keydown handler before    *)
(* the next event is dispatched, so a handler is one step on the committed *)
(* state; the part of runAnalysis after its await is a step of its own.    *)
(***************************************************************************)
EXTENDS Integers, Sequences, FiniteSets

\* ---------------------------------------------------------------- bounds
MaxTime == 1          \* the clock of Spec stays at or below this value
MaxEntries == 6       \* longest log of Spec
FreeLen == 2          \* SpecLong: the first FreeLen key events are freely chosen
MaxLongEntries == 52  \* longest log of SpecLong

\* ------------------------------------------------------ program constants
MinAnalysisEntries_below == 5 - 1
MinAnalysisEntries == 5   \* App.tsx:79 and App.tsx:182
TimingsLimit == 50        \* part_001:9, slice(0, 50)
MsPerMinute == 60000      \* App.tsx:88
SymbolsPerWord == 5       \* App.tsx:90

NoAnalysis == "null"
TextResult == "<response.text>"
FallbackResult == "Unable to generate analysis."
FailureResult == "Analysis failed due to an API error."

\* ------------------------------------------------------------ key symbols
LowerLetters ==
  {"a","b","c","d","e","f","g","h","i","j","k","l","m",
   "n","o","p","q","r","s","t","u","v","w","x","y","z"}
UpperLetters ==
  {"A","B","C","D","E","F","G","H","I","J","K","L","M",
   "N","O","P","Q","R","S","T","U","V","W","X","Y","Z"}
Digits == {"0","1","2","3","4","5","6","7","8","9"}

KeyEnter == <<"E","n","t","e","r">>
\* the key symbols of SpecLong, in the order in which its typist cycles through them
KeyOrder == << <<"a">>, <<"Q">>, <<"7">>, <<"$">>, <<" ">>, KeyEnter, <<>> >>
KeySymbols == { KeyOrder[i] : i \in 1..Len(KeyOrder) }
KeyAfter(key) ==
  LET i == CHOOSE j \in 1..Len(KeyOrder) : KeyOrder[j] = key
  IN KeyOrder[(i % Len(KeyOrder)) + 1]
\* Spec: the symbol of the key event that arrives when the log holds n entries
SpecKeyAt(n) == IF n % 3 = 1 THEN KeyEnter ELSE IF n % 3 = 2 THEN <<"7">> ELSE <<"a">>

VARIABLES
  entries,       \* useState<KeyEntry[]>
  isRecording,   \* useState(true)
  analysis,      \* useState<string | null>
  isAnalyzing,   \* useState(false)
  lastKeyTime,   \* useRef<number>(Date.now())
  now,           \* the value Date.now() returns
  inflight,      \* analyzeKeystrokes calls awaiting the service
  lastCallLen,   \* history: the log length of the last analyzeKeystrokes call, -1 if none
  sessionStart,  \* history: the time the current session began
  clockSetBack,  \* history: the wall clock has been set back
  op             \* history: the handler that ran last

vars == <<entries, isRecording, analysis, isAnalyzing, lastKeyTime, now,
          inflight, lastCallLen, sessionStart, clockSetBack, op>>

\* ------------------------------------------------------- pure functions
Min(a, b) == IF a < b THEN a ELSE b

\* Math.round of num/den for den > 0: the nearest integer, halves towards +infinity
MathRound(num, den) == (2 * num + den) \div (2 * den)

RECURSIVE SumIntervals(_)
SumIntervals(es) ==
  IF es = <<>> THEN 0 ELSE es[1].interval + SumIntervals(Tail(es))

\* Array.prototype.join('') of an array of strings
RECURSIVE Join(_)
Join(strs) ==
  IF strs = <<>> THEN <<>> ELSE strs[1] \o Join(Tail(strs))

\* Array.prototype.slice(from, to) for 0 <= from <= to
Slice(arr, from, to) == SubSeq(arr, from + 1, Min(to, Len(arr)))

\* /^[a-zA-Z]$/.test(key)
IsLetter(key) == Len(key) = 1 /\ key[1] \in (LowerLetters \cup UpperLetters)

\* /^[0-9]$/.test(key)
IsDigit(key) == Len(key) = 1 /\ key[1] \in Digits

classify_lowercase_only(key) ==
  IF Len(key) = 1 /\ key[1] \in LowerLetters THEN "alpha"
  ELSE IF IsDigit(key) THEN "numeric"
  ELSE IF Len(key) > 1 THEN "command" ELSE "special"

classify(key) ==
  IF IsLetter(key) THEN "alpha"
  ELSE IF IsDigit(key) THEN "numeric"
  ELSE IF Len(key) > 1 THEN "command" ELSE "special"

newEntry(key, t, interval) ==
  [key |-> key, timestamp |-> t, interval |-> interval, type |-> classify(key)]

calculateWPM_guards_zero_only(es) ==
  IF Len(es) = 0 THEN 0
  ELSE LET dt == es[Len(es)].timestamp - es[1].timestamp IN
       IF dt = 0 THEN 0
       ELSE IF dt < 0 THEN 0 - MathRound(Len(es) * MsPerMinute, SymbolsPerWord * (0 - dt))
       ELSE MathRound(Len(es) * MsPerMinute, SymbolsPerWord * dt)

calculateWPM(es) ==
  IF Len(es) = 0 THEN 0
  ELSE LET dt == es[Len(es)].timestamp - es[1].timestamp IN
       IF dt <= 0 THEN 0
       ELSE MathRound(Len(es) * MsPerMinute, SymbolsPerWord * dt)

avgInterval_truncates(es) ==
  IF Len(es) > 0 THEN SumIntervals(es) \div Len(es) ELSE 0

avgInterval(es) ==
  IF Len(es) > 0 THEN MathRound(SumIntervals(es), Len(es)) ELSE 0

\* entries.map(e => e.interval).slice(0, 50)
extractTimings_no_slice(es) == [i \in 1..Len(es) |-> es[i].interval]

extractTimings(es) ==
  Slice([i \in 1..Len(es) |-> es[i].interval], 0, TimingsLimit)

\* entries.map(e => e.key).join('')
extractSequence_sliced(es) ==
  Join(Slice([i \in 1..Len(es) |-> es[i].key], 0, TimingsLimit))

extractSequence(es) == Join([i \in 1..Len(es) |-> es[i].key])

\* what analyzeKeystrokes puts into the prompt
payloadOf(es) == [sequence |-> extractSequence(es), timings |-> extractTimings(es)]

\* ------------------------------------------------------------------ Init
Init ==
  /\ entries = <<>>
  /\ isRecording = TRUE
  /\ analysis = NoAnalysis
  /\ isAnalyzing = FALSE
  /\ now = 0
  /\ lastKeyTime = 0
  /\ inflight = <<>>
  /\ lastCallLen = -1
  /\ sessionStart = 0
  /\ clockSetBack = FALSE
  /\ op = "init"

\* --------------------------------------------------------------- handlers
handleKeyDown_keeps_lastKeyTime(key, t) ==
  /\ IF ~isRecording
       THEN UNCHANGED <<entries, lastKeyTime>>
       ELSE /\ lastKeyTime' = lastKeyTime
            /\ entries' = Append(entries, newEntry(key, t, t - lastKeyTime))
  /\ op' = "handleKeyDown"
  /\ UNCHANGED <<isRecording, analysis, isAnalyzing, inflight, lastCallLen,
                 sessionStart, clockSetBack>>

handleKeyDown_times_paused_keys(key, t) ==
  /\ lastKeyTime' = t
  /\ IF ~isRecording
       THEN UNCHANGED entries
       ELSE entries' = Append(entries, newEntry(key, t, t - lastKeyTime))
  /\ op' = "handleKeyDown"
  /\ UNCHANGED <<isRecording, analysis, isAnalyzing, inflight, lastCallLen,
                 sessionStart, clockSetBack>>

\* the payload is read from the live log when the answer arrives, not when the
\* request is made
handleKeyDown_seen_by_request(key, t) ==
  /\ IF ~isRecording
       THEN UNCHANGED <<entries, lastKeyTime, inflight>>
       ELSE /\ lastKeyTime' = t
            /\ entries' = Append(entries, newEntry(key, t, t - lastKeyTime))
            /\ inflight' = [i \in 1..Len(inflight) |->
                              [inflight[i] EXCEPT !.payload = payloadOf(entries')]]
  /\ op' = "handleKeyDown"
  /\ UNCHANGED <<isRecording, analysis, isAnalyzing, lastCallLen,
                 sessionStart, clockSetBack>>

handleKeyDown_waits_for_analysis(key, t) ==
  /\ IF ~isRecording \/ isAnalyzing
       THEN UNCHANGED <<entries, lastKeyTime>>
       ELSE /\ lastKeyTime' = t
            /\ entries' = Append(entries, newEntry(key, t, t - lastKeyTime))
  /\ op' = "handleKeyDown"
  /\ UNCHANGED <<isRecording, analysis, isAnalyzing, inflight, lastCallLen,
                 sessionStart, clockSetBack>>

\* handleKeyDown for a key event with symbol key, Date.now() returning t
handleKeyDown(key, t) ==
  /\ IF ~isRecording
       THEN UNCHANGED <<entries, lastKeyTime>>
       ELSE /\ lastKeyTime' = t
            /\ entries' = Append(entries, newEntry(key, t, t - lastKeyTime))
  /\ op' = "handleKeyDown"
  /\ UNCHANGED <<isRecording, analysis, isAnalyzing, inflight, lastCallLen,
                 sessionStart, clockSetBack>>

\* onClick of the PAUSE CAPTURE / RESUME CAPTURE button
toggleRecording ==
  /\ isRecording' = ~isRecording
  /\ op' = "toggleRecording"
  /\ UNCHANGED <<entries, analysis, isAnalyzing, lastKeyTime, now, inflight,
                 lastCallLen, sessionStart, clockSetBack>>

clearLogs_restarts_timing ==
  /\ entries' = <<>>
  /\ analysis' = NoAnalysis
  /\ lastKeyTime' = now
  /\ sessionStart' = now
  /\ inflight' = [i \in 1..Len(inflight) |-> [inflight[i] EXCEPT !.stale = TRUE]]
  /\ op' = "clearLogs"
  /\ UNCHANGED <<isRecording, isAnalyzing, now, lastCallLen, clockSetBack>>

clearLogs_keeps_analysis ==
  /\ entries' = <<>>
  /\ sessionStart' = now
  /\ inflight' = [i \in 1..Len(inflight) |-> [inflight[i] EXCEPT !.stale = TRUE]]
  /\ op' = "clearLogs"
  /\ UNCHANGED <<isRecording, analysis, isAnalyzing, lastKeyTime, now, lastCallLen,
                 clockSetBack>>

clearLogs ==
  /\ entries' = <<>>
  /\ analysis' = NoAnalysis
  /\ sessionStart' = now
  /\ inflight' = [i \in 1..Len(inflight) |-> [inflight[i] EXCEPT !.stale = TRUE]]
  /\ op' = "clearLogs"
  /\ UNCHANGED <<isRecording, isAnalyzing, lastKeyTime, now, lastCallLen, clockSetBack>>

\* onClick of EXPORT .TXT, disabled while the log is empty; reads the log only
downloadLogs ==
  /\ Len(entries) # 0
  /\ op' = "downloadLogs"
  /\ UNCHANGED <<entries, isRecording, analysis, isAnalyzing, lastKeyTime, now,
                 inflight, lastCallLen, sessionStart, clockSetBack>>

\* the disabled attribute of the RUN ANALYTICS button
runDisabled_ignores_inflight == Len(entries) < MinAnalysisEntries

runDisabled == Len(entries) < MinAnalysisEntries \/ isAnalyzing

\* the early return of runAnalysis
tooFewEntries(es) == Len(es) < MinAnalysisEntries

\* runAnalysis up to its await.  analyzeKeystrokes runs synchronously up to its
\* own await: with setupOk the payload is built and the request is sent; without,
\* new GoogleGenAI throws outside the try, the promise rejects and runAnalysis
\* ends at its await with isAnalyzing left true.
runAnalysis(setupOk) ==
  /\ IF tooFewEntries(entries)
       THEN UNCHANGED <<isAnalyzing, inflight, lastCallLen>>
       ELSE /\ isAnalyzing' = TRUE
            /\ lastCallLen' = Len(entries)
            /\ inflight' = IF setupOk
                 THEN Append(inflight, [payload |-> payloadOf(entries),
                                        n |-> Len(entries), stale |-> FALSE])
                 ELSE inflight
  /\ op' = "runAnalysis"
  /\ UNCHANGED <<entries, isRecording, analysis, lastKeyTime, now, sessionStart,
                 clockSetBack>>

\* what analyzeKeystrokes returns for each outcome of generateContent
resultOf(outcome) ==
  CASE outcome = "text" -> TextResult
    [] outcome = "empty" -> FallbackResult
    [] outcome = "error" -> FailureResult

Outcomes == {"text", "empty", "error"}

analysisResolved_error_propagates(i, outcome) ==
  /\ i \in 1..Len(inflight)
  /\ IF outcome = "error"
       THEN UNCHANGED <<analysis, isAnalyzing>>
       ELSE analysis' = resultOf(outcome) /\ isAnalyzing' = FALSE
  /\ inflight' = [j \in 1..(Len(inflight) - 1) |->
                    IF j < i THEN inflight[j] ELSE inflight[j + 1]]
  /\ op' = (IF outcome = "error" THEN "analysisFailed" ELSE "analysisResolved")
  /\ UNCHANGED <<entries, isRecording, lastKeyTime, now, lastCallLen,
                 sessionStart, clockSetBack>>

\* the service answers request i: analyzeKeystrokes returns and runAnalysis
\* continues after its await
analysisResolved(i, outcome) ==
  /\ i \in 1..Len(inflight)
  /\ analysis' = resultOf(outcome)
  /\ isAnalyzing' = FALSE
  /\ inflight' = [j \in 1..(Len(inflight) - 1) |->
                    IF j < i THEN inflight[j] ELSE inflight[j + 1]]
  /\ op' = (IF outcome = "error" THEN "analysisFailed" ELSE "analysisResolved")
  /\ UNCHANGED <<entries, isRecording, lastKeyTime, now, lastCallLen,
                 sessionStart, clockSetBack>>

\* ------------------------------------------------------------ environment
KeyDown ==
  /\ Len(entries) < MaxEntries
  /\ handleKeyDown(SpecKeyAt(Len(entries)), now)
  /\ UNCHANGED now

ClickRunAnalysis ==
  /\ ~runDisabled
  /\ \E setupOk \in BOOLEAN : runAnalysis(setupOk)

ServiceAnswers ==
  \E i \in 1..Len(inflight), outcome \in Outcomes : analysisResolved(i, outcome)

Tick ==
  /\ now < MaxTime
  /\ now' = now + 1
  /\ UNCHANGED <<entries, isRecording, analysis, isAnalyzing, lastKeyTime,
                 inflight, lastCallLen, sessionStart, clockSetBack, op>>

\* Date.now() is wall-clock time: the system clock is set back, once in a run
ClockBack ==
  /\ ~clockSetBack
  /\ now' = now - 1
  /\ clockSetBack' = TRUE
  /\ UNCHANGED <<entries, isRecording, analysis, isAnalyzing, lastKeyTime,
                 inflight, lastCallLen, sessionStart, op>>

Next ==
  \/ KeyDown
  \/ toggleRecording
  \/ clearLogs
  \/ downloadLogs
  \/ ClickRunAnalysis
  \/ ServiceAnswers
  \/ Tick
  \/ ClockBack

Spec == Init /\ [][Next]_vars

\* The service answers or fails every request it was sent: an outstanding
\* request does not wait for ever.
SpecFair == Spec /\ WF_vars(ServiceAnswers)

\* ------------------------------------------------ long sessions (SpecLong)
\* One uninterrupted typist: the first FreeLen symbols are free, then the symbols
\* cycle through KeyOrder; the pauses between keys cycle through 1, 2, 0 ms.  The
\* typist stops once an analysis has been asked for.
TypeLong ==
  /\ Len(entries) < MaxLongEntries
  /\ ~isAnalyzing /\ analysis = NoAnalysis
  /\ LET d == (Len(entries) + 1) % 3 IN
       /\ now' = now + d
       /\ IF Len(entries) < FreeLen
            THEN \E key \in KeySymbols : handleKeyDown(key, now + d)
            ELSE handleKeyDown(KeyAfter(entries[Len(entries)].key), now + d)

ClickRunAnalysisLong ==
  /\ ~runDisabled
  /\ runAnalysis(TRUE)

NextLong ==
  \/ TypeLong
  \/ ClickRunAnalysisLong
  \/ ServiceAnswers

SpecLong == Init /\ [][NextLong]_vars

\* ================================================================ claims
Categories == {"alpha", "numeric", "special", "command"}

RECURSIVE SumKeyLengths(_)
SumKeyLengths(es) ==
  IF es = <<>> THEN 0 ELSE Len(es[1].key) + SumKeyLengths(Tail(es))

\* C1: in every reachable state each entry at index i > 0 of the log has an
\* interval equal to its timestamp minus the timestamp of the entry before it.
C1_IntervalIsTimestampDelta ==
  \A i \in 2..Len(entries) :
    entries[i].interval = entries[i].timestamp - entries[i - 1].timestamp

\* a log of a later session, captured across a pause, with a non-zero delta
C1_Witness ==
  /\ Len(entries) >= 3
  /\ entries[3].interval > 0
  /\ sessionStart > 0
  /\ ~isRecording

\* C2: the first entry of every session has an interval equal to its timestamp
\* minus the time the session began (start-up, or the reset that opened it).
C2_FirstIntervalFromSessionStart ==
  Len(entries) > 0 => entries[1].interval = entries[1].timestamp - sessionStart

\* C3: no entry stored in the log has a negative interval, also when Date.now()
\* returns a value below the previous event's time.
C3_NoNegativeInterval ==
  \A i \in 1..Len(entries) : entries[i].interval >= 0

\* C4: every call of analyzeKeystrokes receives a log of at least 5 entries.
C4_AnalysisNeedsFiveEntries ==
  /\ lastCallLen = -1 \/ lastCallLen >= 5
  /\ \A i \in 1..Len(inflight) : inflight[i].n >= 5

\* a request made from exactly 5 entries is outstanding
C4_Witness ==
  /\ op = "runAnalysis"
  /\ lastCallLen = 5
  /\ Len(inflight) = 1

\* C5: at most one analysis request is outstanding at any time.
C5_AtMostOneOutstanding == Len(inflight) <= 1

\* a request is outstanding while the log is long enough for another one and a
\* key has arrived since the request was made
C5_Witness ==
  /\ Len(inflight) = 1
  /\ isAnalyzing
  /\ ~inflight[1].stale
  /\ Len(entries) > inflight[1].n

\* C6: right after a reset the log is empty, totalKeys and averageInterval are 0
\* and no analysis result is held.
C6_ResetClearsLogAndAnalysis ==
  op = "clearLogs" =>
    /\ entries = <<>>
    /\ Len(entries) = 0
    /\ avgInterval(entries) = 0
    /\ analysis = NoAnalysis

\* a reset of a session that had at least 5 entries, made while a request was
\* outstanding
C6_Witness ==
  /\ op = "clearLogs"
  /\ lastCallLen >= 5
  /\ Len(inflight) = 1
  /\ inflight[1].stale

\* C7: a key event that arrives while capture is paused leaves the log and the
\* last-event time unchanged.
C7_PausedKeyNotRecorded ==
  [][(~isRecording /\ op' = "handleKeyDown")
       => (entries' = entries /\ lastKeyTime' = lastKeyTime)]_vars

\* a key event was ignored while paused, later than the last captured event
C7_Witness ==
  /\ ~isRecording
  /\ op = "handleKeyDown"
  /\ Len(entries) >= 1
  /\ now > lastKeyTime
  /\ lastKeyTime = entries[Len(entries)].timestamp

\* C8: the timings of a request are the intervals of the first min(50, n) entries
\* of the n-entry log, in log order, and never more than 50 values.
C8_TimingsAreFirstFifty ==
  \A r \in 1..Len(inflight) :
    LET timings == inflight[r].payload.timings
        n == Len(entries)
    IN /\ Len(timings) = (IF n < 50 THEN n ELSE 50)
       /\ Len(timings) <= 50
       /\ \A j \in 1..Len(timings) : timings[j] = entries[j].interval

\* a request made from a log of more than 50 entries
C8_Witness ==
  /\ Len(inflight) = 1
  /\ Len(entries) > 50
  /\ Len(inflight[1].payload.timings) = 50
  /\ entries[51].interval # entries[1].interval

\* C9 as claimed: the length of the sequence equals the number of entries.
C9_SequenceLengthIsLogLength ==
  \A r \in 1..Len(inflight) :
    Len(inflight[r].payload.sequence) = Len(entries)

\* C9 as amended: the length of the sequence is the sum of the lengths of the key
\* symbols of the entries; it is the number of entries when every symbol has
\* length 1.
C9_SequenceLengthIsSumOfKeyLengths ==
  \A r \in 1..Len(inflight) :
    LET sequence == inflight[r].payload.sequence
    IN /\ Len(sequence) = SumKeyLengths(entries)
       /\ (\A j \in 1..Len(entries) : Len(entries[j].key) = 1)
            => Len(sequence) = Len(entries)

\* a request made from a log of more than 50 entries with a named key in it
C9_Witness ==
  /\ Len(inflight) = 1
  /\ Len(entries) > 50
  /\ \E j \in 1..Len(entries) : entries[j].key = KeyEnter
  /\ Len(inflight[1].payload.sequence) > Len(entries)

\* C10: every entry has exactly one of the four categories: alpha exactly for a
\* single Latin letter of either case, numeric exactly for a single decimal digit,
\* command exactly for a symbol longer than one character, special otherwise
\* ("7" numeric, "Enter" command, "$" special, "Q" alpha).
C10_ClassificationTotalFirstMatch ==
  \A i \in 1..Len(entries) :
    LET key == entries[i].key
        type == entries[i].type
        letter == Len(key) = 1 /\ key[1] \in (LowerLetters \cup UpperLetters)
        digit == Len(key) = 1 /\ key[1] \in Digits
    IN /\ type \in Categories
       /\ (type = "alpha") <=> letter
       /\ (type = "numeric") <=> (digit /\ ~letter)
       /\ (type = "command") <=> (Len(key) > 1 /\ ~letter /\ ~digit)
       /\ (type = "special") <=> (Len(key) <= 1 /\ ~letter /\ ~digit)
       /\ (key = <<"7">>) => type = "numeric"
       /\ (key = KeyEnter) => type = "command"
       /\ (key = <<"$">>) => type = "special"
       /\ (key = <<"Q">>) => type = "alpha"

\* a log that holds "7", "Enter", "$" and "Q"
C10_Witness ==
  /\ \E i \in 1..Len(entries) : entries[i].key = <<"7">> /\ entries[i].type = "numeric"
  /\ \E i \in 1..Len(entries) : entries[i].key = KeyEnter /\ entries[i].type = "command"
  /\ \E i \in 1..Len(entries) : entries[i].key = <<"$">> /\ entries[i].type = "special"
  /\ \E i \in 1..Len(entries) : entries[i].key = <<"Q">> /\ entries[i].type = "alpha"

\* the log the program builds when one tick of the model's clock is unit ms
InUnits(es, unit) ==
  [i \in 1..Len(es) |->
     [es[i] EXCEPT !.timestamp = unit * es[i].timestamp,
                   !.interval = unit * es[i].interval]]

TimeUnits == {1, 7, 900, 60000}

\* C11: wpm is 0 for an empty log and for a log whose last timestamp minus first
\* timestamp is <= 0; otherwise it is (n/5) / ((last - first)/60000) rounded to
\* the nearest integer, halves upwards.
C11_WpmGuardedAndRounded ==
  \A unit \in TimeUnits :
    LET es == InUnits(entries, unit)
        n == Len(es)
        wpm == calculateWPM(es)
    IN IF n = 0 THEN wpm = 0
       ELSE LET dt == es[n].timestamp - es[1].timestamp
            IN IF dt <= 0 THEN wpm = 0
               ELSE /\ (2 * wpm - 1) * 5 * dt <= 2 * n * 60000
                    /\ 2 * n * 60000 < (2 * wpm + 1) * 5 * dt

\* a log with a positive duration that holds an entry taken after the clock was
\* set back, next to one whose wpm needs rounding (3 keys in one minute: 0.6)
C11_Witness ==
  /\ Len(entries) = 3
  /\ entries[3].timestamp - entries[1].timestamp = 1
  /\ \E i \in 1..3 : entries[i].interval < 0
  /\ calculateWPM(InUnits(entries, 60000)) = 1
  /\ calculateWPM(entries) = 36000

RECURSIVE IntervalTotal(_, _)
IntervalTotal(es, k) ==
  IF k = 0 THEN 0 ELSE IntervalTotal(es, k - 1) + es[k].interval

\* the log of three key events "a", "b", "c" at 1000, 1300 and 1900 ms, capture
\* started at 1000 ms
ExampleLog ==
  << newEntry(<<"a">>, 1000, 1000 - 1000),
     newEntry(<<"b">>, 1300, 1300 - 1000),
     newEntry(<<"c">>, 1900, 1900 - 1300) >>

\* C12: averageInterval is 0 for an empty log and otherwise the arithmetic mean of
\* the intervals of all entries of the log, rounded to the nearest integer (halves
\* upwards); the example log has intervals 0, 300, 600 and averageInterval 300.
C12_AverageIntervalIsRoundedMean ==
  /\ LET n == Len(entries)
         total == IntervalTotal(entries, n)
         avg == avgInterval(entries)
     IN IF n = 0 THEN avg = 0
        ELSE /\ 2 * avg * n <= 2 * total + n
             /\ 2 * total + n < 2 * (avg + 1) * n
  /\ [i \in 1..3 |-> ExampleLog[i].interval] = <<0, 300, 600>>
  /\ Len(ExampleLog) = 3
  /\ avgInterval(ExampleLog) = 300

\* a log whose mean interval is a half: 1/2 rounds to 1
C12_Witness ==
  /\ Len(entries) = 2
  /\ IntervalTotal(entries, 2) = 1
  /\ avgInterval(entries) = 1

\* C13: the entries of the log are ordered by timestamp: for every i > 0,
\* timestamp[i-1] <= timestamp[i].
C13_OrderedByTimestamp ==
  \A i \in 2..Len(entries) : entries[i - 1].timestamp <= entries[i].timestamp

C15_CaptureDuringAnalysis ==
  [][(isAnalyzing /\ isRecording /\ op' = "handleKeyDown" /\ now' = now) =>
       /\ Len(entries') = Len(entries) + 1
       /\ SubSeq(entries', 1, Len(entries)) = entries
       /\ LET e == entries'[Len(entries')]
          IN /\ e.key = SpecKeyAt(Len(entries))
             /\ e.timestamp = now
             /\ e.interval = now - lastKeyTime
             /\ e.type = (CASE e.key = <<"a">> -> "alpha"
                            [] e.key = <<"7">> -> "numeric"
                            [] e.key = KeyEnter -> "command")
       /\ lastKeyTime' = now]_vars

\* a key was captured while the request made from the first 5 entries of this
\* session was still outstanding
C15_Witness ==
  /\ op = "handleKeyDown"
  /\ isAnalyzing
  /\ isRecording
  /\ Len(inflight) = 1
  /\ ~inflight[1].stale
  /\ Len(entries) = inflight[1].n + 1
  /\ lastKeyTime = entries[Len(entries)].timestamp

\* C16: every analysis request that is started ends: once the in-flight flag is
\* set, it is eventually false again with a result string held.
C16_AnalysisTerminates ==
  isAnalyzing ~> (~isAnalyzing /\ analysis # NoAnalysis)

\* the first k key symbols of a log, one after the other
RECURSIVE KeysUpTo(_, _)
KeysUpTo(es, k) ==
  IF k = 0 THEN <<>> ELSE KeysUpTo(es, k - 1) \o es[k].key

\* C17: the payload of a request is that of the log at the moment of the trigger:
\* as long as the session lasts, its sequence is the keys and its timings are the
\* (at most 50) first intervals of the first n entries of the log, n the log's
\* length at the trigger; no step that leaves the request outstanding (a key
\* event, a reset, a pause) changes its payload.
C17_PayloadIsSnapshot ==
  [][/\ Len(inflight') = Len(inflight) =>
          \A i \in 1..Len(inflight) : inflight'[i].payload = inflight[i].payload
     /\ \A i \in 1..Len(inflight') :
          LET r == inflight'[i]
              m == IF r.n < 50 THEN r.n ELSE 50
          IN ~r.stale =>
               /\ r.n <= Len(entries')
               /\ r.payload.sequence = KeysUpTo(entries', r.n)
               /\ r.payload.timings = [j \in 1..m |-> entries'[j].interval]]_vars

\* a request is outstanding whose session was reset and in whose flight a key of
\* the next session was captured
C17_Witness ==
  /\ Len(inflight) = 1
  /\ inflight[1].stale
  /\ Len(inflight[1].payload.timings) = 5
  /\ Len(entries) = 1
  /\ op = "handleKeyDown"

\* C18: the result of a request that was in flight when a reset happened is never
\* stored after that reset.
C18_StaleResultNeverStored ==
  [][(Len(inflight) = 1 /\ inflight[1].stale /\ Len(inflight') = 0) =>
       analysis' = analysis]_vars

\* C19: the last-event time changes only when a key event is captured, and becomes
\* that event's timestamp; whenever the log is not empty it is the timestamp of
\* the last entry; pause, resume, reset, export and analysis leave it unchanged.
C19_LastKeyTimeIsLastCapture ==
  [][/\ lastKeyTime' # lastKeyTime =>
          /\ op' = "handleKeyDown"
          /\ isRecording
          /\ Len(entries') = Len(entries) + 1
          /\ lastKeyTime' = now
     /\ Len(entries') > 0 => lastKeyTime' = entries'[Len(entries')].timestamp
     /\ op' \in {"toggleRecording", "clearLogs", "downloadLogs", "runAnalysis",
                 "analysisResolved", "analysisFailed"} => lastKeyTime' = lastKeyTime]_vars

\* right after a reset the last-event time is still that of the last key captured
\* before it, earlier than the reset
C19_Witness ==
  /\ op = "clearLogs"
  /\ entries = <<>>
  /\ lastCallLen >= 5
  /\ lastKeyTime < sessionStart

====
